---- MODULE Spec2Model ----
(***************************************************************************)
(* The live duplex audio session of chonos: the LiveAudio component        *)
(* (src/components/LiveAudio.tsx) and connectToLiveAPI with its audio      *)
(* helpers (src/services/geminiService.ts).                                *)
(*                                                                         *)
(* Time is counted in sample periods of the 24 kHz output context, so a    *)
(* decoded buffer of n frames has duration n.  The JavaScript job queue is *)
(* the FIFO sequence microtasks; host events (inbound messages, capture    *)
(* ticks, close, error, unmount) are tasks and may arrive while            *)
(* continuations are still queued.                                         *)
(*                                                                         *)
(* Spec is the application, SpecFaults the same code with collaborators    *)
(* that fail or are absent, SpecCodec the audio helpers (encodeAudio,      *)
(* decodeAudio, createPcmBlob, decodeAudioData) applied to one buffer.     *)
(***************************************************************************)
EXTENDS Integers, Sequences, FiniteSets

\* ---------------------------------------------------------------- bounds
MaxMsgs == 2        \* inbound messages delivered in one run
MaxCalls == 2       \* function calls over all inbound messages
MaxDur == 2         \* longest decoded inbound frame, in sample periods
MaxClock == 2       \* latest reading of the output device clock
MaxCapture == 2     \* microphone buffers handed to onaudioprocess
MaxId == 2          \* invocation ids the remote endpoint uses
MaxErrorEvents == 2 \* error events the transport raises
MaxThrowAt == 1     \* latest hook call that can be the throwing one

\* ------------------------------------------------------------- constants
CaptureSnapshot == "captureSnapshot"
OtherTool == "setZoom"
ToolNames == {CaptureSnapshot, OtherTool}
SuccessText == "Snapshot captured successfully."
BytesPerSample == 2

VARIABLES
    phase,          \* position of startSession
    cleanup,        \* the effect's cleanup flag
    inputCtx,       \* inputAudioContextRef.current
    outputCtx,      \* outputAudioContextRef.current
    analyser,       \* analyserRef.current is set
    mic,            \* the MediaStream returned by getUserMedia
    session,        \* state of the live session held by the SDK
    sessionRef,     \* sessionRef.current is set
    isConnected,    \* React state isConnected
    error,          \* React state error
    processorOn,    \* processor.onaudioprocess is installed and wired
    nextStartTime,  \* nextStartTimeRef.current
    clock,          \* outputAudioContextRef.current.currentTime at its last reading
    microtasks,     \* continuations waiting in the job queue, oldest first
    recv,           \* number of inbound messages handed to onmessage
    invocations,    \* function calls received, in order
    scheduled,      \* source.start calls, in order
    hookCalls,      \* onCaptureTrigger calls, in order
    responses,      \* session.sendToolResponse calls, in order
    sent,           \* buffers passed to session.sendRealtimeInput, in order
    captured,       \* microphone buffers delivered to onaudioprocess
    connects,       \* calls of connectToLiveAPI
    errorReports,   \* calls of the onError callback
    hookThrowsAt,   \* the hook call that throws (0: the hook never throws)
    tapFails,       \* source.connect(analyser) throws
    frames,         \* messages whose base64Audio decodes to a playable buffer
    hookSupplied,   \* the caller passed onCaptureTrigger to connectToLiveAPI
    codec           \* the audio helpers applied to one buffer, step by step

vars == <<phase, cleanup, inputCtx, outputCtx, analyser, mic, session,
          sessionRef, isConnected, error, processorOn, nextStartTime, clock,
          microtasks, recv, invocations, scheduled, hookCalls,
          responses, sent, captured, connects, errorReports, hookThrowsAt,
          tapFails, frames, hookSupplied, codec>>

\* --------------------------------------------------------------- helpers
Min(a, b) == IF a <= b THEN a ELSE b
Max(a, b) == IF a >= b THEN a ELSE b

NoCalls == <<>>

\* An inbound audio payload: transport text that either is not valid
\* base64 or decodes to `bytes` bytes (one odd length, and every whole
\* number of samples up to MaxDur).
Payloads ==
    {[text |-> "bad", bytes |-> 0], [text |-> "ok", bytes |-> 1]}
        \cup {[text |-> "ok", bytes |-> BytesPerSample * n] : n \in 1..MaxDur}

NoAudio == [text |-> "none", bytes |-> 0]

Calls == [id : 1..MaxId, name : ToolNames]

CallSeqs == {NoCalls} \cup {<<c>> : c \in Calls}
                \cup {<<c, d>> : c \in Calls, d \in Calls}

\* decodeAudio: atob throws on text that is not base64.
DecodeAudioThrows(p) == p.text = "bad"

\* decodeAudioData: new Int16Array(data.buffer) throws on an odd byte
\* length, ctx.createBuffer throws on a frame count of 0.
DecodeAudioDataThrows(p) ==
    \/ p.bytes % BytesPerSample # 0
    \/ p.bytes \div BytesPerSample = 0

\* audioBuffer.duration, in sample periods: frameCount = length / numChannels.
DurationInBytes(p) == p.bytes
Duration(p) == p.bytes \div BytesPerSample

\* Math.max(currentTime, nextStartTimeRef.current)
StartTimeNoMax(now, cursor) == now
StartTime(now, cursor) == Max(now, cursor)

\* A continuation resumed after an await on an already settled promise is
\* appended to the job queue.
AwaitLifo(q, k) == <<k>> \o q
Await(q, k) == Append(q, k)

\* if (fc.name === 'captureSnapshot')
Handles(fc) == fc.name = CaptureSnapshot

\* if (onCaptureTrigger): the optional fourth parameter of connectToLiveAPI.
onCaptureTrigger == hookSupplied

\* The functionResponses entry sent for fc.
ToolResponseFixedId(fc) == [id |-> 1, name |-> fc.name, result |-> SuccessText]
ToolResponse(fc) == [id |-> fc.id, name |-> fc.name, result |-> SuccessText]

\* Index of the first function call at or after i that the loop handles,
\* or Len(calls) + 1 when the loop runs off the end.
RECURSIVE NextHandled(_, _)
NextHandled(calls, i) ==
    IF i > Len(calls) THEN i
    ELSE IF Handles(calls[i]) THEN i
    ELSE NextHandled(calls, i + 1)

AudioTask(seq, p) ==
    [kind |-> "audio", seq |-> seq, payload |-> p, calls |-> NoCalls, idx |-> 0]
ToolTask(seq, calls, i) ==
    [kind |-> "tool", seq |-> seq, payload |-> NoAudio, calls |-> calls, idx |-> i]
ThenTask ==
    [kind |-> "then", seq |-> 0, payload |-> NoAudio, calls |-> NoCalls, idx |-> 0]

Received(seq, calls) ==
    [i \in 1..Len(calls) |->
        [seq |-> seq, idx |-> i, id |-> calls[i].id, name |-> calls[i].name]]

TotalCalls == Len(invocations)

\* Ids are opaque to the client, so the remote endpoint's choice is
\* enumerated up to renaming: an id is one already used or the next new one.
UsedIds(invs) == {invs[i].id : i \in 1..Len(invs)}

CanonicalIds(calls) ==
    \A i \in 1..Len(calls) :
        calls[i].id <=
            Cardinality(UsedIds(invocations) \cup UsedIds(SubSeq(calls, 1, i - 1))) + 1

\* An inbound message is one of {audio payload, tool-invocation request}.
Messages ==
    {[audio |-> p, calls |-> NoCalls] : p \in Payloads}
        \cup {[audio |-> NoAudio, calls |-> c] : c \in CallSeqs \ {NoCalls}}

\* ----------------------------------------------------- the audio helpers
\* A byte is a value below 2^8, a base64 character one of 2^6 letters, here
\* its index in the alphabet, or the padding character "=".
ByteRange == 2 ^ 8
Letters == 2 ^ 6
Pad == Letters

\* btoa of the binary string built by String.fromCharCode from each byte (a
\* character whose code is the byte): three bytes give four letters, a rest
\* of one or two bytes gives two or three letters and padding.
RECURSIVE Btoa(_)
Btoa(b) ==
    IF Len(b) = 0 THEN <<>>
    ELSE IF Len(b) = 1
    THEN <<b[1] \div 4, (b[1] % 4) * 16, Pad, Pad>>
    ELSE IF Len(b) = 2
    THEN <<b[1] \div 4, (b[1] % 4) * 16 + b[2] \div 16, (b[2] % 16) * 4, Pad>>
    ELSE <<b[1] \div 4, (b[1] % 4) * 16 + b[2] \div 16,
           (b[2] % 16) * 4 + b[3] \div Letters, b[3] % Letters>>
            \o Btoa(SubSeq(b, 4, Len(b)))

\* let binary = ''; binary += String.fromCharCode(bytes[i]); btoa(binary)
EncodeAudioBytes(bytes) == Btoa(bytes)

\* atob first removes one or two padding characters from a text whose
\* length is a multiple of four.
Unpadded(t) ==
    IF Len(t) % 4 = 0 /\ Len(t) > 0 /\ t[Len(t)] = Pad
    THEN IF t[Len(t) - 1] = Pad
         THEN SubSeq(t, 1, Len(t) - 2)
         ELSE SubSeq(t, 1, Len(t) - 1)
    ELSE t

\* atob throws InvalidCharacterError on a length of 4n + 1 letters and on
\* padding anywhere else.
AtobThrows(t) ==
    LET u == Unpadded(t)
    IN \/ Len(u) % 4 = 1
       \/ \E i \in 1..Len(u) : u[i] = Pad

\* The bytes of a text without padding: four letters give three bytes, a
\* rest of two or three letters gives one or two bytes, the bits left over
\* are dropped.
RECURSIVE AtobLetters(_)
AtobLetters(u) ==
    IF Len(u) < 2 THEN <<>>
    ELSE IF Len(u) = 2
    THEN <<u[1] * 4 + u[2] \div 16>>
    ELSE IF Len(u) = 3
    THEN <<u[1] * 4 + u[2] \div 16, (u[2] % 16) * 16 + u[3] \div 4>>
    ELSE <<u[1] * 4 + u[2] \div 16, (u[2] % 16) * 16 + u[3] \div 4,
           (u[3] % 4) * Letters + u[4]>>
            \o AtobLetters(SubSeq(u, 5, Len(u)))

\* bytes[i] = binaryString.charCodeAt(i): a byte keeps the low 7 bits only.
CharCodeAtAscii(c) == c % (ByteRange \div 2)
CharCodeAt(c) == c

\* decodeAudio: atob, then one byte per character of the binary string.
DecodeAudioBytes(t) ==
    LET binaryString == AtobLetters(Unpadded(t))
    IN [i \in 1..Len(binaryString) |-> CharCodeAt(binaryString[i])]

\* data[i] * 32768
Scale == 32768
Int16Range == 2 * Scale

\* A sample is written as its numerator n over SubSteps * Scale, so that
\* n / SubSteps is the scaled value data[i] * 32768 and SubSteps the number
\* of sample values told apart inside one quantization step.
SubSteps == 2
\* Sample values are taken within MaxOff quantization steps of -1, 0, the
\* largest 16-bit value and 1.
MaxOff == 2
\* Longest Float32Array handed to createPcmBlob, longest byte buffer handed
\* to encodeAudio.
MaxSamples == 1
MaxBytes == 3

\* ToNumber -> truncate towards zero, as the typed array store does first.
Truncate(n) == IF n >= 0 THEN n \div SubSteps ELSE -((-n) \div SubSteps)

\* A store that clamps to the ends of the 16-bit range.
ToInt16Clamped(v) ==
    IF v >= Scale THEN Scale - 1 ELSE IF v < -Scale THEN -Scale ELSE v

\* int16[i] = v on an Int16Array: the value modulo 2^16, read as signed.
ToInt16(v) == ((v + Scale) % Int16Range) - Scale

\* new Uint8Array(int16.buffer): two bytes per sample, low byte first.
RECURSIVE Int16Bytes(_)
Int16Bytes(int16) ==
    IF Len(int16) = 0 THEN <<>>
    ELSE LET u == Head(int16) % Int16Range
         IN <<u % ByteRange, u \div ByteRange>> \o Int16Bytes(Tail(int16))

\* createPcmBlob: the Int16Array of the scaled samples.
PcmInt16(data) == [i \in 1..Len(data) |-> ToInt16(Truncate(data[i]))]

\* createPcmBlob(...).data
CreatePcmBlobData(data) == EncodeAudioBytes(Int16Bytes(PcmInt16(data)))

\* new Int16Array(data.buffer): byte pairs read as signed, low byte first.
Int16Array(bytes) ==
    [i \in 1..(Len(bytes) \div BytesPerSample) |->
        LET u == bytes[2 * i - 1] + ByteRange * bytes[2 * i]
        IN IF u >= Scale THEN u - Int16Range ELSE u]

\* channelData[i] = dataInt16[i] / 32768.0, written as a numerator over
\* SubSteps * Scale like the input samples.
ChannelData(bytes) ==
    LET dataInt16 == Int16Array(bytes)
    IN [i \in 1..Len(dataInt16) |-> dataInt16[i] * SubSteps]

BytePatterns == {0, 1, 85, 127, 128, 170, 255}

Buffers(S, n) == UNION {[1..k -> S] : k \in 0..n}

ByteBuffers == Buffers(BytePatterns, MaxBytes)

SampleValues ==
    {c * SubSteps + d :
        c \in {-Scale, 0, Scale - 1, Scale},
        d \in (-(MaxOff * SubSteps))..(MaxOff * SubSteps)}

SampleBuffers == Buffers(SampleValues, MaxSamples) \ {<<>>}

\* The helpers at rest: nothing is being converted.
Idle ==
    [stage |-> "idle", data |-> <<>>, bytes |-> <<>>, text |-> <<>>,
     out |-> <<>>, pcm |-> <<>>]

\* ------------------------------------------------------------------ Init
Start ==
    /\ phase = "unmounted"
    /\ cleanup = FALSE
    /\ inputCtx = "null"
    /\ outputCtx = "null"
    /\ analyser = FALSE
    /\ mic = "none"
    /\ session = "none"
    /\ sessionRef = FALSE
    /\ isConnected = FALSE
    /\ error = "null"
    /\ processorOn = FALSE
    /\ nextStartTime = 0
    /\ clock = 0
    /\ microtasks = <<>>
    /\ recv = 0
    /\ invocations = <<>>
    /\ scheduled = <<>>
    /\ hookCalls = <<>>
    /\ responses = <<>>
    /\ sent = <<>>
    /\ captured = 0
    /\ connects = 0
    /\ errorReports = 0
    /\ frames = {}

\* The application: LiveAudio always passes its onCapture prop,
\* handleManualCapture starts an async function and cannot throw, and the
\* analyser belongs to the context of every source.
Init ==
    /\ Start
    /\ hookSupplied = TRUE
    /\ hookThrowsAt = 0
    /\ tapFails = FALSE
    /\ codec = Idle

\* connectToLiveAPI and handleAudioData with other collaborators: a caller
\* that passes no capture hook, a capture hook that throws on one of its
\* calls, a tap whose connect throws.
InitFaults ==
    /\ Start
    /\ hookSupplied \in BOOLEAN
    /\ hookThrowsAt \in IF hookSupplied THEN 0..MaxThrowAt ELSE {0}
    /\ tapFails \in BOOLEAN
    /\ codec = Idle

\* --------------------------------------------------------------- actions
\* useEffect body up to the await of getUserMedia.
Mount ==
    /\ phase = "unmounted"
    /\ phase' = "awaitMic"
    /\ inputCtx' = "running"
    /\ outputCtx' = "running"
    /\ analyser' = TRUE
    /\ UNCHANGED <<cleanup, mic, session, sessionRef, isConnected, error,
                   processorOn, nextStartTime, clock, microtasks, recv,
                   invocations, scheduled, hookCalls, responses, sent,
                   captured, connects, errorReports, hookThrowsAt, tapFails,
                   frames, hookSupplied, codec>>

\* getUserMedia resolves: connectToLiveAPI is called and .then registered.
MicGranted ==
    /\ phase = "awaitMic"
    /\ phase' = "started"
    /\ mic' = "live"
    /\ session' = "connecting"
    /\ connects' = connects + 1
    /\ UNCHANGED <<cleanup, inputCtx, outputCtx, analyser, sessionRef,
                   isConnected, error, processorOn, nextStartTime, clock,
                   microtasks, recv, invocations, scheduled, hookCalls,
                   responses, sent,
                   captured, errorReports, hookThrowsAt, tapFails,
                   frames, hookSupplied, codec>>

\* setError("Could not access microphone or connect.") of the catch block.
CatchSilent == "null"
CatchMessage == "mic"

\* getUserMedia rejects: the catch block of startSession.
MicDenied ==
    /\ phase = "awaitMic"
    /\ phase' = "failed"
    /\ error' = CatchMessage
    /\ UNCHANGED <<cleanup, inputCtx, outputCtx, analyser, mic, session,
                   sessionRef, isConnected, processorOn, nextStartTime, clock,
                   microtasks, recv, invocations, scheduled, hookCalls,
                   responses, sent,
                   captured, connects, errorReports, hookThrowsAt, tapFails,
                   frames, hookSupplied, codec>>

\* ai.live.connect resolves: the session is open and the .then callback of
\* startSession is queued.
ConnectResolve ==
    /\ session = "connecting"
    /\ session' = "open"
    /\ microtasks' = Await(microtasks, ThenTask)
    /\ UNCHANGED <<phase, cleanup, inputCtx, outputCtx, analyser, mic,
                   sessionRef, isConnected, error, processorOn, nextStartTime,
                   clock, recv, invocations, scheduled, hookCalls,
                   responses, sent,
                   captured, connects, errorReports, hookThrowsAt, tapFails,
                   frames, hookSupplied, codec>>

\* The body of sessionPromise.then; createMediaStreamSource on a closed
\* context throws in some browsers (throws = TRUE) and not in others.
ThenBody(throws) ==
    /\ sessionRef' = TRUE
    /\ isConnected' = TRUE
    /\ processorOn' =
         IF inputCtx = "null" \/ (inputCtx = "closed" /\ throws)
         THEN processorOn ELSE TRUE

RunThen ==
    /\ microtasks # <<>>
    /\ Head(microtasks).kind = "then"
    /\ microtasks' = Tail(microtasks)
    /\ \E throws \in BOOLEAN : ThenBody(throws)
    /\ UNCHANGED <<phase, cleanup, inputCtx, outputCtx, analyser, mic, session,
                   error, nextStartTime, clock, recv, invocations,
                   scheduled, hookCalls, responses, sent,
                   captured, connects, errorReports, hookThrowsAt, tapFails,
                   frames, hookSupplied, codec>>

\* The .then callback is a reaction job of the settled connect promise: it
\* runs in the same microtask checkpoint, before the host starts another
\* task (a WebSocket event, a capture tick, an unmount).
ThenPending ==
    \E k \in 1..Len(microtasks) : microtasks[k].kind = "then"

\* () => { if(!cleanup) setIsConnected(false); }
OnCloseReconnected(c, cur) == TRUE
OnCloseCallback(c, cur) == IF c THEN cur ELSE FALSE

\* callbacks.onclose -> onClose()
OnClose ==
    /\ ~ThenPending
    /\ session \in {"open", "error"}
    /\ session' = "closed"
    /\ isConnected' = OnCloseCallback(cleanup, isConnected)
    /\ UNCHANGED <<phase, cleanup, inputCtx, outputCtx, analyser, mic,
                   sessionRef, error, processorOn, nextStartTime, clock,
                   microtasks, recv, invocations, scheduled, hookCalls,
                   responses, sent,
                   captured, connects, errorReports, hookThrowsAt, tapFails,
                   frames, hookSupplied, codec>>

\* (err) => { console.error(err); setError("Connection failed"); }: the
\* callback starts no new session.
ReconnectOnErrorAlways == TRUE
ReconnectOnError == FALSE

\* callbacks.onerror -> onError(e), for every error event of the transport;
\* an error event is a task of its own and starts with the job queue empty.
OnError ==
    /\ microtasks = <<>>
    /\ session \in {"connecting", "open", "error"}
    /\ errorReports < MaxErrorEvents
    /\ errorReports' = errorReports + 1
    /\ error' = "conn"
    /\ session' = IF ReconnectOnError THEN "connecting" ELSE "error"
    /\ connects' = IF ReconnectOnError THEN connects + 1 ELSE connects
    /\ UNCHANGED <<phase, cleanup, inputCtx, outputCtx, analyser, mic,
                   sessionRef, isConnected, processorOn, nextStartTime, clock,
                   microtasks, recv, invocations, scheduled, hookCalls,
                   responses, sent, captured, hookThrowsAt, tapFails,
                   frames, hookSupplied, codec>>

\* The promise of connectToLiveAPI rejects (getAI or ai.live.connect throws):
\* sessionPromise.then has no rejection handler and startSession does not
\* await it, so the catch block does not run and no state is set.
ConnectReject ==
    /\ session = "connecting"
    /\ session' = "rejected"
    /\ UNCHANGED <<phase, cleanup, inputCtx, outputCtx, analyser, mic,
                   sessionRef, isConnected, error, processorOn, nextStartTime,
                   clock, microtasks, recv, invocations, scheduled, hookCalls,
                   responses, sent, captured, connects, errorReports,
                   hookThrowsAt, tapFails,
                   frames, hookSupplied, codec>>

\* decodeAudio and decodeAudioData both accept the payload.
Decodes(p) ==
    /\ p # NoAudio
    /\ ~DecodeAudioThrows(p)
    /\ ~DecodeAudioDataThrows(p)

HandleAudioDataTwice(q, seq, p) ==
    IF p = NoAudio \/ outputCtx = "null" \/ DecodeAudioThrows(p)
    THEN q
    ELSE Await(Await(q, AudioTask(seq, p)), AudioTask(seq, p))

\* handleAudioData up to its await: returns when there is no output
\* context, catches the throw of decodeAudio, else suspends.
HandleAudioData(q, seq, p) ==
    IF p = NoAudio \/ outputCtx = "null" \/ DecodeAudioThrows(p)
    THEN q
    ELSE Await(q, AudioTask(seq, p))

\* The tool branch of onmessage up to its first await: the loop skips the
\* calls it does not handle, calls the hook and suspends on sessionPromise.
HookLog(log, seq, calls, i) ==
    IF i <= Len(calls) /\ onCaptureTrigger
    THEN Append(log, [seq |-> seq, idx |-> i, id |-> calls[i].id])
    ELSE log

\* The hook call about to be made throws: onmessage has no try block, so
\* its promise rejects and the rest of the loop does not run.
HookThrows ==
    /\ onCaptureTrigger
    /\ hookThrowsAt # 0
    /\ Len(hookCalls) + 1 = hookThrowsAt

ToolLoop(q, seq, calls, i) ==
    IF i <= Len(calls) /\ ~HookThrows
    THEN Await(q, ToolTask(seq, calls, i))
    ELSE q

\* callbacks.onmessage for one inbound message.
Deliver(p, calls) ==
    /\ ~ThenPending
    /\ session = "open"
    /\ recv < MaxMsgs
    /\ CanonicalIds(calls)
    /\ TotalCalls + Len(calls) <= MaxCalls
    /\ recv' = recv + 1
    /\ frames' = IF Decodes(p) THEN frames \cup {recv + 1} ELSE frames
    /\ invocations' = invocations \o Received(recv + 1, calls)
    /\ LET i == NextHandled(calls, 1)
       IN /\ hookCalls' = HookLog(hookCalls, recv + 1, calls, i)
          /\ microtasks' =
               ToolLoop(HandleAudioData(microtasks, recv + 1, p),
                        recv + 1, calls, i)
    /\ UNCHANGED <<phase, cleanup, inputCtx, outputCtx, analyser, mic, session,
                   sessionRef, isConnected, error, processorOn, nextStartTime,
                   clock, scheduled, responses, sent,
                   captured, connects, errorReports, hookThrowsAt, tapFails,
                   hookSupplied, codec>>

\* The catch block of handleAudioData: console.error only, the cursor of a
\* frame that failed to decode stays where it was.
CursorSkipsFrame(cursor, p) == cursor + 1
CursorResetOnError(cursor, p) == 0
CursorAfterDecodeError(cursor, p) == cursor

\* handleAudioData after its await, the decode having failed: the catch.
RunAudioDecodeError ==
    /\ microtasks # <<>>
    /\ Head(microtasks).kind = "audio"
    /\ DecodeAudioDataThrows(Head(microtasks).payload)
    /\ microtasks' = Tail(microtasks)
    /\ nextStartTime' =
         CursorAfterDecodeError(nextStartTime, Head(microtasks).payload)
    /\ UNCHANGED <<phase, cleanup, inputCtx, outputCtx, analyser, mic, session,
                   sessionRef, isConnected, error, processorOn,
                   clock, recv, invocations, scheduled, hookCalls,
                   responses, sent,
                   captured, connects, errorReports, hookThrowsAt, tapFails,
                   frames, hookSupplied, codec>>

\* handleAudioData after its await on a closed output context, in a browser
\* where createBufferSource throws on a closed context: the catch.
RunAudioClosedThrows ==
    /\ microtasks # <<>>
    /\ Head(microtasks).kind = "audio"
    /\ ~DecodeAudioDataThrows(Head(microtasks).payload)
    /\ outputCtx = "closed"
    /\ microtasks' = Tail(microtasks)
    /\ UNCHANGED <<phase, cleanup, inputCtx, outputCtx, analyser, mic, session,
                   sessionRef, isConnected, error, processorOn, nextStartTime,
                   clock, recv, invocations, scheduled, hookCalls,
                   responses, sent,
                   captured, connects, errorReports, hookThrowsAt, tapFails,
                   frames, hookSupplied, codec>>

\* if (analyserRef.current) source.connect(analyserRef.current), inside the
\* try block and before the frame is started: a throw goes to the catch.
TapThrows == analyser /\ tapFails

\* handleAudioData after its await: the frame is started and the cursor
\* moved.  `now` is the reading of currentTime, never before an earlier one.
RunAudioSchedule(now) ==
    /\ microtasks # <<>>
    /\ Head(microtasks).kind = "audio"
    /\ ~DecodeAudioDataThrows(Head(microtasks).payload)
    /\ LET t == Head(microtasks)
           startTime == StartTime(now, nextStartTime)
       IN /\ scheduled' =
               IF TapThrows THEN scheduled
               ELSE Append(scheduled,
                      [seq |-> t.seq, start |-> startTime,
                       dur |-> Duration(t.payload), now |-> now])
          /\ nextStartTime' =
               IF TapThrows THEN nextStartTime
               ELSE startTime + Duration(t.payload)
    /\ clock' = IF TapThrows THEN clock ELSE now
    /\ microtasks' = Tail(microtasks)
    /\ UNCHANGED <<phase, cleanup, inputCtx, outputCtx, analyser, mic, session,
                   sessionRef, isConnected, error, processorOn, recv,
                   invocations, hookCalls, responses, sent,
                   captured, connects, errorReports, hookThrowsAt, tapFails,
                   frames, hookSupplied, codec>>

\* session.sendToolResponse for the call the loop was suspended on.
SendToolResponse(log, t) ==
    LET r == ToolResponse(t.calls[t.idx])
    IN Append(log, [seq |-> t.seq, idx |-> t.idx, id |-> r.id,
                    name |-> r.name, result |-> r.result,
                    wire |-> session = "open"])

\* The tool loop of onmessage after `await sessionPromise`: the response is
\* sent and the loop goes on to the next call it handles.
RunTool ==
    /\ microtasks # <<>>
    /\ Head(microtasks).kind = "tool"
    /\ LET t == Head(microtasks)
           j == NextHandled(t.calls, t.idx + 1)
       IN /\ responses' = SendToolResponse(responses, t)
          /\ hookCalls' = HookLog(hookCalls, t.seq, t.calls, j)
          /\ microtasks' = ToolLoop(Tail(microtasks), t.seq, t.calls, j)
    /\ UNCHANGED <<phase, cleanup, inputCtx, outputCtx, analyser, mic, session,
                   sessionRef, isConnected, error, processorOn, nextStartTime,
                   clock, recv, invocations, scheduled, sent,
                   captured, connects, errorReports, hookThrowsAt, tapFails,
                   frames, hookSupplied, codec>>

\* session.sendRealtimeInput({ media: pcmBlob }) for microphone buffer buf.
SendRealtimeInputFirst(log, buf) == <<buf>> \o log
SendRealtimeInput(log, buf) == Append(log, buf)

\* processor.onaudioprocess: one microphone buffer is encoded and sent.  The
\* audioprocess event is a task of its own: it starts with the job queue empty.
AudioProcess ==
    /\ microtasks = <<>>
    /\ processorOn
    /\ inputCtx = "running"
    /\ captured < MaxCapture
    /\ captured' = captured + 1
    /\ sent' = SendRealtimeInput(sent, captured + 1)
    /\ UNCHANGED <<phase, cleanup, inputCtx, outputCtx, analyser, mic, session,
                   sessionRef, isConnected, error, processorOn, nextStartTime,
                   clock, microtasks, recv, invocations, scheduled,
                   hookCalls, responses,
                   connects, errorReports, hookThrowsAt, tapFails,
                   frames, hookSupplied, codec>>

\* AudioContext.close() of the cleanup, applied to one context ref.
CloseCtx(ctx) == IF ctx = "null" THEN ctx ELSE "closed"

\* The cleanup returned by the effect (the live view is closed).  React
\* unmounts in a task of its own: it starts with the job queue empty.
Cleanup ==
    /\ microtasks = <<>>
    /\ phase # "unmounted"
    /\ ~cleanup
    /\ cleanup' = TRUE
    /\ inputCtx' = CloseCtx(inputCtx)
    /\ outputCtx' = CloseCtx(outputCtx)
    /\ UNCHANGED <<phase, analyser, mic, session, sessionRef, isConnected,
                   error, processorOn, nextStartTime, clock, microtasks, recv,
                   invocations, scheduled, hookCalls, responses, sent,
                   captured, connects, errorReports, hookThrowsAt, tapFails,
                   frames, hookSupplied, codec>>

Next ==
    \/ Mount
    \/ MicGranted
    \/ MicDenied
    \/ ConnectResolve
    \/ RunThen
    \/ OnClose
    \/ OnError
    \/ ConnectReject
    \/ \E m \in Messages : Deliver(m.audio, m.calls)
    \/ RunAudioDecodeError
    \/ RunAudioClosedThrows
    \/ \E now \in clock..MaxClock : RunAudioSchedule(now)
    \/ RunTool
    \/ AudioProcess
    \/ Cleanup

Spec == Init /\ [][Next]_vars

SpecFaults == InitFaults /\ [][Next]_vars

\* ------------------------------------------ the audio helpers on their own
app == <<phase, cleanup, inputCtx, outputCtx, analyser, mic, session,
         sessionRef, isConnected, error, processorOn, nextStartTime, clock,
         microtasks, recv, invocations, scheduled, hookCalls,
         responses, sent, captured, connects, errorReports, hookThrowsAt,
         tapFails, frames, hookSupplied>>

\* One buffer is given to the helpers: a byte buffer to encodeAudio, or a
\* Float32Array to createPcmBlob.
InitCodec ==
    /\ Start
    /\ hookSupplied = TRUE
    /\ hookThrowsAt = 0
    /\ tapFails = FALSE
    /\ codec \in {[Idle EXCEPT !.stage = "bytes", !.bytes = b] : b \in ByteBuffers}
            \cup {[Idle EXCEPT !.stage = "samples", !.data = x] : x \in SampleBuffers}

\* encodeAudio(bytes)
EncodeAudio ==
    /\ codec.stage = "bytes"
    /\ codec' = [codec EXCEPT !.stage = "text",
                              !.text = EncodeAudioBytes(codec.bytes)]
    /\ UNCHANGED app

\* createPcmBlob(data)
CreatePcmBlob ==
    /\ codec.stage = "samples"
    /\ codec' = [codec EXCEPT !.stage = "text",
                              !.bytes = Int16Bytes(PcmInt16(codec.data)),
                              !.text = CreatePcmBlobData(codec.data)]
    /\ UNCHANGED app

\* decodeAudio(base64)
DecodeAudio ==
    /\ codec.stage = "text"
    /\ codec' = IF AtobThrows(codec.text)
                THEN [codec EXCEPT !.stage = "threw"]
                ELSE [codec EXCEPT !.stage = "decoded",
                                   !.out = DecodeAudioBytes(codec.text)]
    /\ UNCHANGED app

\* decodeAudioData(data, ctx)
DecodeAudioData ==
    /\ codec.stage = "decoded"
    /\ codec' = IF DecodeAudioDataThrows([text |-> "ok", bytes |-> Len(codec.out)])
                THEN [codec EXCEPT !.stage = "threw"]
                ELSE [codec EXCEPT !.stage = "pcm",
                                   !.pcm = ChannelData(codec.out)]
    /\ UNCHANGED app

NextCodec ==
    \/ EncodeAudio
    \/ CreatePcmBlob
    \/ DecodeAudio
    \/ DecodeAudioData

SpecCodec == InitCodec /\ [][NextCodec]_vars

\* ---------------------------------------------------------------- claims
\* Positions of a log whose entries are about function call idx of message seq.
About(log, seq, idx) ==
    {k \in 1..Len(log) : log[k].seq = seq /\ log[k].idx = idx}

\* The onmessage invocation for message seq has run to its end.
Completed(seq) ==
    \A k \in 1..Len(microtasks) :
        ~(microtasks[k].kind = "tool" /\ microtasks[k].seq = seq)

Released ==
    /\ mic # "live"
    /\ inputCtx # "running"
    /\ outputCtx # "running"

\* C1: over every sequence of inbound frames and clock readings, each
\* scheduled frame starts no earlier than the end of the one scheduled
\* before it: start(i+1) >= start(i) + d(i).
C1_NoOverlap ==
    \A i \in 1..(Len(scheduled) - 1) :
        scheduled[i + 1].start >= scheduled[i].start + scheduled[i].dur

\* A frame was handled while the clock was still before the end of the
\* frame scheduled before it (the case where Math.max picks the cursor).
C1_Witness ==
    \E i \in 1..(Len(scheduled) - 1) :
        /\ scheduled[i + 1].now < scheduled[i].start + scheduled[i].dur
        /\ scheduled[i + 1].start = scheduled[i].start + scheduled[i].dur

C5_CaptureAnswered ==
    \A n \in 1..Len(invocations) :
        LET inv == invocations[n]
            hooks == About(hookCalls, inv.seq, inv.idx)
            resps == About(responses, inv.seq, inv.idx)
        IN (Handles(inv) /\ onCaptureTrigger) =>
              /\ Cardinality(hooks) <= 1
              /\ Cardinality(resps) <= Cardinality(hooks)
              /\ \A k \in resps :
                    /\ responses[k].id = inv.id
                    /\ responses[k].name = inv.name
                    /\ responses[k].result = SuccessText
              /\ Completed(inv.seq) =>
                    /\ Cardinality(hooks) = 1
                    /\ Cardinality(resps) = 1

\* Two "captureSnapshot" calls with different ids have both been answered.
C5_Witness ==
    /\ Len(responses) = 2
    /\ responses[1].id # responses[2].id
    /\ responses[1].wire /\ responses[2].wire
    /\ Len(hookCalls) = 2
    /\ microtasks = <<>>

\* C3 (as claimed): once a message has been handled on an open session,
\* each of its function calls, whatever its name, has exactly one response
\* carrying its id.
C3_EveryCallAnswered ==
    \A n \in 1..Len(invocations) :
        LET inv == invocations[n]
            resps == About(responses, inv.seq, inv.idx)
        IN (Completed(inv.seq) /\ session = "open") =>
              /\ Cardinality(resps) = 1
              /\ \A k \in resps : responses[k].id = inv.id

\* C4 (as claimed): once a message has been handled on an open session,
\* each call naming a tool without a handler has exactly one response, and
\* that response is an error, not the success text.
C4_UnknownToolAnswered ==
    \A n \in 1..Len(invocations) :
        LET inv == invocations[n]
            resps == About(responses, inv.seq, inv.idx)
        IN (~Handles(inv) /\ Completed(inv.seq) /\ session = "open") =>
              /\ Cardinality(resps) = 1
              /\ \A k \in resps : responses[k].result # SuccessText

\* C6 (as claimed): no invocation id has more than one response
\* transmitted for it.
C6_OneResultPerId ==
    \A id \in 1..MaxId :
        Cardinality({k \in 1..Len(responses) :
                        responses[k].id = id /\ responses[k].wire}) <= 1

\* C7 (as claimed): after the cleanup has run, no step schedules a frame
\* and no step calls the capture hook.
C7_QuietAfterCleanup ==
    [][cleanup => (scheduled' = scheduled /\ hookCalls' = hookCalls)]_vars

\* C8 (as claimed): once the cleanup has run, the microphone stream is
\* stopped and neither audio context is running.
C8_ReleasedByCleanup == cleanup => Released

\* C9 (as claimed): once onclose or onerror has been delivered, the
\* microphone stream is stopped and neither audio context is running.
C9_ReleasedAfterCloseOrError == session \in {"closed", "error"} => Released

\* C10 (as claimed): closing the live view closes the session, so once the
\* cleanup has run the session is no longer open.
C10_CleanupClosesSession == cleanup => session # "open"

\* C11 (as claimed): sendRealtimeInput is called only while the session is
\* open, never before the connect promise has resolved and never after
\* onclose or onerror.
C11_SendOnlyWhileOpen == [][sent' # sent => session = "open"]_vars

\* C12: the buffers passed to sendRealtimeInput are in capture order, each
\* captured buffer at most once, and only buffers that were captured.
C12_CaptureOrder ==
    /\ \A i, j \in 1..Len(sent) : i < j => sent[i] < sent[j]
    /\ \A i \in 1..Len(sent) : sent[i] \in 1..captured

\* Two microphone buffers have been captured and sent.
C12_Witness == captured = 2 /\ Len(sent) = 2

SessionRank(s) ==
    CASE s = "none" -> 0
      [] s = "connecting" -> 1
      [] s = "open" -> 2
      [] s \in {"error", "rejected"} -> 3
      [] s = "closed" -> 4

\* C13: the session state never moves backwards, and once onclose or
\* onerror has been delivered no step sets isConnected or installs the
\* capture processor.
C13_ForwardOnly ==
    [][/\ SessionRank(session') >= SessionRank(session)
       /\ session \in {"closed", "error"} =>
            /\ isConnected' => isConnected
            /\ processorOn' => processorOn]_vars

\* An open session has gone through onerror and then onclose.
C13_Witness ==
    /\ session = "closed"
    /\ errorReports >= 1
    /\ sessionRef
    /\ ~isConnected
    /\ processorOn

\* C14: connectToLiveAPI is called at most once in the life of the view,
\* also after onerror on an open session.
C14_ConnectAtMostOnce == connects <= 1

\* onerror has been delivered on a session that had been open.
C14_Witness ==
    /\ session = "error"
    /\ sessionRef
    /\ connects = 1

\* C15 (as claimed): however many error events the transport raises, the
\* error callback runs at most once.
C15_ReportedOnce == errorReports <= 1

\* C16: after getUserMedia has failed the error is shown, connectToLiveAPI
\* was never called, no microphone stream is held, and no buffer was
\* captured or sent.
C16_MicFailure ==
    phase = "failed" =>
        /\ error = "mic"
        /\ session = "none"
        /\ connects = 0
        /\ mic = "none"
        /\ ~processorOn
        /\ captured = 0
        /\ sent = <<>>

\* getUserMedia has failed and the view has since been closed.
C16_Witness == phase = "failed" /\ cleanup

\* C17 (as claimed): once the connect promise has rejected an error is
\* shown to the user and the capture processor is not installed.
C17_HandshakeFailureSurfaced ==
    session = "rejected" => (error # "null" /\ ~processorOn)

\* End of the frame scheduled before position i (0 before the first).
PrevEnd(i) ==
    IF i = 1 THEN 0 ELSE scheduled[i - 1].start + scheduled[i - 1].dur

\* C18: a frame that fails to decode is not scheduled and leaves the cursor
\* alone: the cursor is always the end of the last scheduled frame, and
\* every scheduled frame has a whole, non-zero number of samples and starts
\* at max(now, end of the frame scheduled before it).
C18_DecodeErrorSkipped ==
    /\ nextStartTime = PrevEnd(Len(scheduled) + 1)
    /\ \A i \in 1..Len(scheduled) :
         /\ scheduled[i].dur > 0
         /\ scheduled[i].start = Max(scheduled[i].now, PrevEnd(i))

\* The first of two audio messages failed to decode on a running context
\* and the second has been scheduled.
C18_Witness ==
    /\ ~cleanup
    /\ invocations = <<>>
    /\ microtasks = <<>>
    /\ Len(scheduled) = 1
    /\ scheduled[1].seq = 2

\* C19 (as claimed): when the hook throws for one call, every other
\* "captureSnapshot" call of a message that has been handled on an open
\* session has exactly one response.
C19_ThrowIsolated ==
    \A n \in 1..Len(invocations) :
        LET inv == invocations[n]
            hooks == About(hookCalls, inv.seq, inv.idx)
            resps == About(responses, inv.seq, inv.idx)
        IN (/\ Handles(inv)
            /\ Completed(inv.seq)
            /\ session = "open"
            /\ hookThrowsAt \notin hooks) => Cardinality(resps) = 1

\* C20 (as claimed): whenever handleAudioData resumes with a decodable
\* frame on a running context, the frame is scheduled and the cursor moves
\* to max(now, cursor) plus its duration, also when the tap's connect throws.
C20_TapNeverBlocks ==
    [][(/\ microtasks # <<>>
        /\ Head(microtasks).kind = "audio"
        /\ ~DecodeAudioDataThrows(Head(microtasks).payload)
        /\ outputCtx = "running"
        /\ microtasks' = Tail(microtasks))
       => (/\ Len(scheduled') = Len(scheduled) + 1
           /\ nextStartTime' =
                Max(clock', nextStartTime) + Duration(Head(microtasks).payload))]_vars

\* The frame of message seq has been scheduled n times and waits in the job
\* queue m times: the sum n + m.
Handled(seq) ==
    Cardinality({k \in 1..Len(scheduled) : scheduled[k].seq = seq})
        + Cardinality({k \in 1..Len(microtasks) :
                          microtasks[k].kind = "audio" /\ microtasks[k].seq = seq})

\* C21: no frame is scheduled twice, only payloads that decode are
\* scheduled, and while the output context is running every received
\* payload that decodes is either scheduled once or still waiting, once, for
\* its turn in the job queue; when the queue is empty it has been scheduled.
C21_ScheduledExactlyOnce ==
    /\ \A i, j \in 1..Len(scheduled) :
         i # j => scheduled[i].seq # scheduled[j].seq
    /\ \A i \in 1..Len(scheduled) : scheduled[i].seq \in frames
    /\ outputCtx = "running" => \A seq \in frames : Handled(seq) = 1

\* Two payloads that decode were received on a running context, and both
\* have been scheduled.
C21_Witness ==
    /\ outputCtx = "running"
    /\ frames = {1, 2}
    /\ microtasks = <<>>
    /\ Len(scheduled) = 2

\* C22: decodeAudio(encodeAudio(b)) has the length and the bytes of b, for
\* the byte buffers given to encodeAudio and for those createPcmBlob builds.
C22_RoundTrip ==
    codec.stage \in {"decoded", "pcm", "threw"} => codec.out = codec.bytes

\* A two-byte buffer whose first byte has every bit set, encoded with one
\* padding character, has gone through decodeAudio.
C22_Witness ==
    /\ codec.stage = "decoded"
    /\ Len(codec.bytes) = 2
    /\ codec.bytes[1] = 255
    /\ codec.text[4] = Pad

\* C23 (as claimed): every sample within [-1, 1], both ends included, comes
\* back from createPcmBlob, decodeAudio and decodeAudioData within one
\* quantization step of itself.
C23_WithinOneStep ==
    codec.stage = "pcm" =>
        \A i \in 1..Len(codec.data) :
            (/\ codec.data[i] >= -(SubSteps * Scale)
             /\ codec.data[i] <= SubSteps * Scale)
                => /\ codec.data[i] - codec.pcm[i] <= SubSteps
                   /\ codec.pcm[i] - codec.data[i] <= SubSteps

\* C24 (as claimed): createPcmBlob stores a sample whose scaled value is
\* outside the 16-bit range as the nearest end of the range.
C24_Saturates ==
    codec.stage \in {"text", "decoded", "pcm"} =>
        \A i \in 1..Len(codec.data) :
            Int16Array(codec.bytes)[i] = ToInt16Clamped(Truncate(codec.data[i]))

C26_SchedulingStep ==
    /\ nextStartTime = 0
    /\ [][Len(scheduled') = Len(scheduled) + 1 =>
            LET e == scheduled'[Len(scheduled')]
                d == Head(microtasks).payload.bytes \div BytesPerSample
            IN /\ e.now = clock'
               /\ e.start = IF e.now >= nextStartTime
                            THEN e.now ELSE nextStartTime
               /\ e.dur = d
               /\ nextStartTime' = e.start + d]_vars

\* A frame of two samples was scheduled at the cursor, ahead of the clock.
C26_Witness ==
    /\ Len(scheduled) = 2
    /\ scheduled[2].dur = 2
    /\ scheduled[2].start > scheduled[2].now
    /\ nextStartTime = scheduled[2].start + 2

\* C27: a frame handled while the clock is at or before the end of the
\* frame scheduled before it starts exactly at that end; a frame handled
\* after the clock has passed that end starts at the clock.
C27_BackToBack ==
    \A i \in 1..Len(scheduled) :
        /\ scheduled[i].now <= PrevEnd(i) => scheduled[i].start = PrevEnd(i)
        /\ scheduled[i].now > PrevEnd(i) => scheduled[i].start = scheduled[i].now

\* Two frames of the same length handled at the same clock reading t0 > 0:
\* the first starts at t0, after a gap, the second at t0 plus the length.
C27_Witness ==
    /\ Len(scheduled) = 2
    /\ scheduled[1].now > 0
    /\ scheduled[2].now = scheduled[1].now
    /\ scheduled[2].dur = scheduled[1].dur
    /\ scheduled[1].start = scheduled[1].now
    /\ scheduled[2].start = scheduled[1].now + scheduled[1].dur

\* C28: no step lowers the cursor, and a step that changes it is
\* handleAudioData scheduling a frame.
C28_CursorMonotone ==
    [][/\ nextStartTime' >= nextStartTime
       /\ nextStartTime' # nextStartTime =>
            /\ microtasks # <<>>
            /\ Head(microtasks).kind = "audio"
            /\ Len(scheduled') = Len(scheduled) + 1]_vars

\* After a frame moved the cursor, a later payload failed to decode, the
\* transport reported an error and the session closed.
C28_Witness ==
    /\ nextStartTime > 0
    /\ recv = 2
    /\ Len(scheduled) = 1
    /\ scheduled[1].seq = 1
    /\ microtasks = <<>>
    /\ errorReports >= 1
    /\ session = "closed"

\* C29 (as claimed): once the cleanup has run, no step opens a session
\* that was not yet open, sets isConnected, installs the capture processor
\* or sends audio.
C29_NoStartAfterCleanup ==
    [][cleanup =>
         /\ session # "open" => session' # "open"
         /\ isConnected' => isConnected
         /\ processorOn' => processorOn
         /\ sent' = sent]_vars

\* C30 (as claimed): every response carrying the success text is for a call
\* the capture hook was called for, the hook call being made before the
\* response is sent.
C30_SuccessOnlyAfterHook ==
    \A k \in 1..Len(responses) :
        responses[k].result = SuccessText =>
            About(hookCalls, responses[k].seq, responses[k].idx) # {}

====
